---- MODULE Spec2Model ----
(***************************************************************************)
(* Model of the multisig aggregate of multisig_ecdsa:                      *)
(*   crypto::sign / crypto::verify        (src/src/crypto/mod.rs)          *)
(*   Multisig::new / sign / verify        (src/src/domain/multisig.rs)     *)
(*   Message::new                         (src/src/domain/message.rs)      *)
(*   bt_addr_from_pk / pkh_from_bt_addr   (src/src/crypto/mod.rs)          *)
(*   InMemoryStorage store/get/update_msg (src/src/storage/in_memory.rs)   *)
(*   InMemoryStorage::lock                (src/src/storage/in_memory.rs)   *)
(*   messages::Message new/sign_with/verify (src/src/domain/messages.rs)   *)
(*   new_msg / sign_msg / verify handlers (src/src/api.rs)                 *)
(*   InMemoryStorage store/get/update_user (src/src/storage/in_memory.rs)  *)
(*   User::add_keypair                    (src/src/domain/user.rs)         *)
(*   new_user / new_keypair handlers      (src/src/api.rs)                 *)
(* A message is constructed once and then driven by sign and verify calls. *)
(***************************************************************************)
EXTENDS Integers, Sequences, FiniteSets, TLC

\* ---------------------------------------------------------------- bounds
NumKeys == 4     \* key pairs that exist
MaxKeys == 3     \* longest public key list handed to Message::new
MaxCount == 4    \* largest count handed to Message::new or to verify

\* ---------------------------------------------------------------- values
\* Option<T>: None is the empty sequence, Some(x) the one-element sequence.
None == <<>>
Some(x) == <<x>>

\* A Keypair is identified by its secret scalar.
Keypairs == 1..NumKeys
secret_key(keypair) == keypair
\* The public key is the curve point of the secret scalar.
public_key(keypair) == [point |-> keypair]

\* Byte strings used as message content and as content handed to sign/verify.
Contents == {<<>>, <<72>>}

\* The identifier Uuid::new_v4 draws for the one message of the model.
Uuids == {"uuid-1"}

Max(a, b) == IF a >= b THEN a ELSE b

\* Sequences over S of length at most n.
SeqUpTo(S, n) == UNION {[1..k -> S] : k \in 0..n}

\* The key pair lists whose public keys are handed to Message::new. Key pairs
\* are interchangeable, so the lists are taken up to renaming of the key
\* pairs: a list starts with key pair 1 and introduces key pairs in increasing
\* order. Repeated keys are allowed, and key pairs above those in the list are
\* not assigned to the message.
KeyLists ==
    {s \in SeqUpTo(Keypairs, MaxKeys) :
        \A i \in 1..Len(s) :
            \/ s[i] = 1
            \/ \E j \in 1..(i - 1) : s[j] = s[i] \/ s[j] = s[i] - 1}

\* Result values of Multisig::sign and Multisig::verify.
Ok == [tag |-> "Ok", provided |-> 0, required |-> 0]
PublicKeyNotFound == [tag |-> "PublicKeyNotFound", provided |-> 0, required |-> 0]
IncorrectSignature == [tag |-> "Secp256k1(IncorrectSignature)", provided |-> 0, required |-> 0]
NotEnoughSignatures(p, r) == [tag |-> "NotEnoughSignatures", provided |-> p, required |-> r]

\* ---------------------------------------------------------------- crypto
\* SHA-256 digest: collision free on the contents of the model.
Sha256(bytes) == [sha256 |-> bytes]

\* crypto::sign: the deterministic ECDSA signature of the digest of msg under
\* seckey (Message::from_digest_slice cannot fail on a 32-byte digest).
crypto_sign(msg, seckey) == [signer |-> seckey, digest |-> Sha256(msg)]

\* Broken variant of crypto::verify: the digest is not compared, only the key.
crypto_verify_any_digest(msg, signature, pubkey) ==
    IF public_key(signature.signer) = pubkey
    THEN [tag |-> "Ok", provided |-> 0, required |-> 0]
    ELSE [tag |-> "Secp256k1(IncorrectSignature)", provided |-> 0, required |-> 0]

\* crypto::verify: the signature verifies iff it was made over the digest of
\* msg by the secret key of pubkey.
crypto_verify(msg, signature, pubkey) ==
    IF signature.digest = Sha256(msg) /\ public_key(signature.signer) = pubkey
    THEN Ok
    ELSE IncorrectSignature

\* ---------------------------------------------------------------- address codec
\* The base58 alphabet of the base58 crate (Bitcoin's), as characters.
Alphabet ==
    <<"1", "2", "3", "4", "5", "6", "7", "8", "9",
      "A", "B", "C", "D", "E", "F", "G", "H", "J", "K", "L", "M", "N", "P",
      "Q", "R", "S", "T", "U", "V", "W", "X", "Y", "Z",
      "a", "b", "c", "d", "e", "f", "g", "h", "i", "j", "k", "m", "n", "o",
      "p", "q", "r", "s", "t", "u", "v", "w", "x", "y", "z">>

\* The number of leading elements of seq equal to x.
RECURSIVE LeadingCount(_, _, _)
LeadingCount(seq, x, i) ==
    IF i > Len(seq) \/ seq[i] # x THEN i - 1 ELSE LeadingCount(seq, x, i + 1)

\* One long division of the number with the digits num (most significant
\* first, radix from) by to: <<digits of the quotient, remainder>>.
RECURSIVE DivDigits(_, _, _, _, _, _)
DivDigits(num, from, to, i, rem, quot) ==
    IF i > Len(num)
    THEN <<quot, rem>>
    ELSE LET cur == rem * from + num[i]
         IN  DivDigits(num, from, to, i + 1, cur % to, Append(quot, cur \div to))

\* The digits in radix to of the number with digits num in radix from, without
\* leading zero digits (the empty sequence for zero).
RECURSIVE ToRadix(_, _, _, _)
ToRadix(num, from, to, acc) ==
    LET n == SubSeq(num, LeadingCount(num, 0, 1) + 1, Len(num))
    IN  IF n = <<>>
        THEN acc
        ELSE LET qr == DivDigits(n, from, to, 1, 0, <<>>)
             IN  ToRadix(qr[1], from, to, <<qr[2]>> \o acc)

\* Broken variant of to_base58: leading zero bytes are not written as "1"s.
to_base58_no_leading_ones(bytes) ==
    LET digits == ToRadix(bytes, 256, 58, <<>>)
    IN  [i \in 1..Len(digits) |-> Alphabet[digits[i] + 1]]

\* ToBase58::to_base58: one "1" per leading zero byte, then the base 58
\* digits of the bytes read as a big-endian number.
to_base58(bytes) ==
    LET zcount == LeadingCount(bytes, 0, 1)
        digits == ToRadix(bytes, 256, 58, <<>>)
    IN  [i \in 1..zcount |-> "1"] \o
        [i \in 1..Len(digits) |-> Alphabet[digits[i] + 1]]

\* FromBase58::from_base58: None for a character outside the alphabet,
\* otherwise one zero byte per leading "1", then the bytes of the number.
from_base58(str) ==
    IF \E i \in 1..Len(str) : \A d \in 1..Len(Alphabet) : Alphabet[d] # str[i]
    THEN None
    ELSE LET digits == [i \in 1..Len(str) |->
                           (CHOOSE d \in 1..Len(Alphabet) : Alphabet[d] = str[i]) - 1]
             zcount == LeadingCount(str, "1", 1)
         IN  Some([i \in 1..zcount |-> 0] \o ToRadix(digits, 58, 256, <<>>))

\* hash160 of the serialized public key: 20 bytes. The hash is a black box
\* to the program; the model fixes one deterministic function that tells the
\* keys apart.
hash160(pubkey) == [i \in 1..20 |-> (pubkey.point * 31 + i * 7) % 256]

\* Sum of f[i] * (i + j) over the sequence f.
RECURSIVE WeightedSum(_, _, _)
WeightedSum(f, j, i) ==
    IF i > Len(f) THEN 0 ELSE ((f[i] + 1) * (i + j) + WeightedSum(f, j, i + 1)) % 256

\* The first four bytes of SHA-256(SHA-256(data)): again one fixed
\* deterministic function of the data.
checksum4(data) == [j \in 1..4 |-> WeightedSum(data, j, 1)]

\* crypto::bt_addr_from_pk
bt_addr_from_pk(pubkey) ==
    LET pubkey_hash == hash160(pubkey)
        with_version == <<0>> \o pubkey_hash
        checksum == checksum4(with_version)
    IN  to_base58(with_version \o checksum)

\* Results of crypto::pkh_from_bt_addr.
AddrOk(pubkey_hash) == [ok |-> TRUE, hash |-> pubkey_hash, err |-> ""]
AddrErr(e) == [ok |-> FALSE, hash |-> <<>>, err |-> e]

\* Broken variant of pkh_from_bt_addr: the version byte is checked before the
\* length.
pkh_from_bt_addr_version_first(address) ==
    LET decoded == from_base58(address)
    IN  IF decoded = None
        THEN AddrErr("Invalid base58 encoding")
        ELSE IF Len(decoded[1]) > 0 /\ decoded[1][1] # 0
        THEN AddrErr("Not a P2PKH address")
        ELSE IF Len(decoded[1]) # 25
        THEN AddrErr("Invalid address length")
        ELSE IF SubSeq(decoded[1], 22, 25) # checksum4(SubSeq(decoded[1], 1, 21))
        THEN AddrErr("Invalid checksum")
        ELSE AddrOk(SubSeq(decoded[1], 2, 21))

\* crypto::pkh_from_bt_addr
pkh_from_bt_addr(address) ==
    LET decoded == from_base58(address)
    IN  IF decoded = None
        THEN AddrErr("Invalid base58 encoding")
        ELSE IF Len(decoded[1]) # 25
        THEN AddrErr("Invalid address length")
        ELSE IF decoded[1][1] # 0
        THEN AddrErr("Not a P2PKH address")
        ELSE IF SubSeq(decoded[1], 22, 25) # checksum4(SubSeq(decoded[1], 1, 21))
        THEN AddrErr("Invalid checksum")
        ELSE AddrOk(SubSeq(decoded[1], 2, 21))

\* ---------------------------------------------------------------- Multisig
\* A binding is <<public key, Option<signature>>>.
Multisig_new(pubkeys) == [i \in 1..Len(pubkeys) |-> <<pubkeys[i], None>>]

\* Index of the first binding whose public key equals pk, 0 when there is none.
FindBinding(bindings, pk) ==
    LET hits == {i \in 1..Len(bindings) : bindings[i][1] = pk}
    IN  IF hits = {} THEN 0 ELSE CHOOSE i \in hits : \A j \in hits : i <= j

\* Broken variant of Multisig::sign: an unknown key is appended as a new signed
\* binding instead of being rejected.
Multisig_sign_push(bindings, content, keypair) ==
    LET i == FindBinding(bindings, public_key(keypair))
    IN  IF i = 0
        THEN [result |-> PublicKeyNotFound,
              bindings |-> Append(bindings,
                  <<public_key(keypair),
                    Some(crypto_sign(content, secret_key(keypair)))>>),
              log |-> ""]
        ELSE IF bindings[i][2] # None
        THEN [result |-> Ok, bindings |-> bindings,
              log |-> "signature alreay exists, skip signing"]
        ELSE [result |-> Ok,
              bindings |-> [bindings EXCEPT ![i][2] =
                               Some(crypto_sign(content, secret_key(keypair)))],
              log |-> ""]

\* Broken variant of Multisig::sign: the lookup only matches a binding of the
\* key that is still unsigned, so a second call finds no binding.
Multisig_sign_find_empty_slot(bindings, content, keypair) ==
    LET hits == {i \in 1..Len(bindings) :
                    bindings[i][1] = public_key(keypair) /\ bindings[i][2] = None}
    IN  IF hits = {}
        THEN [result |-> PublicKeyNotFound, bindings |-> bindings, log |-> ""]
        ELSE LET i == CHOOSE i \in hits : \A j \in hits : i <= j
             IN  [result |-> Ok,
                  bindings |-> [bindings EXCEPT ![i][2] =
                                  Some(crypto_sign(content, secret_key(keypair)))],
                  log |-> ""]

\* Broken variant of Multisig::sign: the content handed in is ignored and the
\* empty byte string is signed.
Multisig_sign_ignores_content(bindings, content, keypair) ==
    LET i == FindBinding(bindings, public_key(keypair))
    IN  IF i = 0
        THEN [result |-> PublicKeyNotFound, bindings |-> bindings, log |-> ""]
        ELSE IF bindings[i][2] # None
        THEN [result |-> Ok, bindings |-> bindings,
              log |-> "signature alreay exists, skip signing"]
        ELSE [result |-> Ok,
              bindings |-> [bindings EXCEPT ![i][2] =
                               Some(crypto_sign(<<>>, secret_key(keypair)))],
              log |-> ""]

\* Broken variant of Multisig::sign: every unsigned binding of the key is
\* signed, not only the first binding found.
Multisig_sign_all_matching(bindings, content, keypair) ==
    LET i == FindBinding(bindings, public_key(keypair))
    IN  IF i = 0
        THEN [result |-> PublicKeyNotFound, bindings |-> bindings, log |-> ""]
        ELSE IF bindings[i][2] # None
        THEN [result |-> Ok, bindings |-> bindings,
              log |-> "signature alreay exists, skip signing"]
        ELSE [result |-> Ok,
              bindings |-> [j \in 1..Len(bindings) |->
                  IF bindings[j][1] = public_key(keypair) /\ bindings[j][2] = None
                  THEN <<bindings[j][1],
                         Some(crypto_sign(content, secret_key(keypair)))>>
                  ELSE bindings[j]],
              log |-> ""]

\* Broken variant of Multisig::sign: an existing signature is overwritten.
Multisig_sign_overwrite(bindings, content, keypair) ==
    LET i == FindBinding(bindings, public_key(keypair))
    IN  IF i = 0
        THEN [result |-> PublicKeyNotFound, bindings |-> bindings, log |-> ""]
        ELSE [result |-> Ok,
              bindings |-> [bindings EXCEPT ![i][2] =
                               Some(crypto_sign(content, secret_key(keypair)))],
              log |-> ""]

\* Broken variant of Multisig::sign: the last binding of the key is the one
\* looked at, not the first.
Multisig_sign_last_matching(bindings, content, keypair) ==
    LET matching == {j \in 1..Len(bindings) : bindings[j][1] = public_key(keypair)}
        i == IF matching = {} THEN 0
             ELSE CHOOSE j \in matching : \A h \in matching : h <= j
    IN  IF i = 0
        THEN [result |-> PublicKeyNotFound, bindings |-> bindings, log |-> ""]
        ELSE IF bindings[i][2] # None
        THEN [result |-> Ok, bindings |-> bindings,
              log |-> "signature alreay exists, skip signing"]
        ELSE [result |-> Ok,
              bindings |-> [bindings EXCEPT ![i][2] =
                               Some(crypto_sign(content, secret_key(keypair)))],
              log |-> ""]

\* Multisig::sign: the result and the bindings after the call.
Multisig_sign(bindings, content, keypair) ==
    LET i == FindBinding(bindings, public_key(keypair))
    IN  IF i = 0
        THEN [result |-> PublicKeyNotFound, bindings |-> bindings, log |-> ""]
        ELSE IF bindings[i][2] # None
        THEN [result |-> Ok, bindings |-> bindings,
              log |-> "signature alreay exists, skip signing"]
        ELSE [result |-> Ok,
              bindings |-> [bindings EXCEPT ![i][2] =
                               Some(crypto_sign(content, secret_key(keypair)))],
              log |-> ""]

\* The bindings that hold a signature, in order.
PresentSignatures(bindings) == SelectSeq(bindings, LAMBDA b : b[2] # None)

\* The result of the verification loop over signatures[i..]: the first error.
RECURSIVE VerifyFrom(_, _, _)
VerifyFrom(signatures, content, i) ==
    IF i > Len(signatures)
    THEN Ok
    ELSE LET r == crypto_verify(content, signatures[i][2][1], signatures[i][1])
         IN  IF r # Ok THEN r ELSE VerifyFrom(signatures, content, i + 1)

\* Broken variant of Multisig::verify: the count comparison is off by one.
Multisig_verify_off_by_one(bindings, content, count_required) ==
    LET signatures == PresentSignatures(bindings)
        sig_count == Len(signatures)
    IN  IF sig_count <= count_required
        THEN NotEnoughSignatures(sig_count, count_required)
        ELSE VerifyFrom(signatures, content, 1)

\* Broken variant of Multisig::verify: invalid signatures are dropped and the
\* valid ones are counted against the quorum.
Multisig_verify_drop_invalid(bindings, content, count_required) ==
    LET valid == SelectSeq(PresentSignatures(bindings),
                     LAMBDA b : crypto_verify(content, b[2][1], b[1]) = Ok)
    IN  IF Len(valid) < count_required
        THEN NotEnoughSignatures(Len(valid), count_required)
        ELSE Ok

\* Broken variant of Multisig::verify: the signatures are checked before the
\* count is.
Multisig_verify_crypto_first(bindings, content, count_required) ==
    LET signatures == PresentSignatures(bindings)
        sig_count == Len(signatures)
        r == VerifyFrom(signatures, content, 1)
    IN  IF r # Ok
        THEN r
        ELSE IF sig_count < count_required
        THEN NotEnoughSignatures(sig_count, count_required)
        ELSE Ok

\* Multisig::verify.
Multisig_verify(bindings, content, count_required) ==
    LET signatures == PresentSignatures(bindings)
        sig_count == Len(signatures)
    IN  IF sig_count < count_required
        THEN NotEnoughSignatures(sig_count, count_required)
        ELSE VerifyFrom(signatures, content, 1)

\* ---------------------------------------------------------------- Message
\* Broken variant of Message::new: the count is capped by the number of keys
\* (min) instead of raised to it (max).
Message_new_min(content, pubkeys, required_signature_count, id) ==
    LET given == IF required_signature_count = None
                 THEN Len(pubkeys)
                 ELSE required_signature_count[1]
    IN  [id |-> id,
         content |-> content,
         signature |-> Multisig_new(pubkeys),
         count_required |-> IF given <= Len(pubkeys) THEN given ELSE Len(pubkeys)]

\* Broken variant of Message::new: a requested count is stored as it is given.
Message_new_as_requested(content, pubkeys, required_signature_count, id) ==
    [id |-> id,
     content |-> content,
     signature |-> Multisig_new(pubkeys),
     count_required |->
        IF required_signature_count = None
        THEN Len(pubkeys)
        ELSE required_signature_count[1]]

\* Message::new, given the identifier Uuid::new_v4 returned.
Message_new(content, pubkeys, required_signature_count, id) ==
    [id |-> id,
     content |-> content,
     signature |-> Multisig_new(pubkeys),
     count_required |->
        Max(IF required_signature_count = None
            THEN Len(pubkeys)
            ELSE required_signature_count[1],
            Len(pubkeys))]

\* ---------------------------------------------------------------- state
VARIABLES
    msg,        \* Option<Message>: None until Message::new has run
    requested,  \* what was handed to Message::new: the count, or all arguments
    lastOp,     \* the last call: its arguments, its result and what it logged
    addr,       \* the address codec: the string at hand and what decoding gave
    users,      \* InMemoryStorage users: the stored users with their key pairs
    msgs,       \* InMemoryStorage msgs: the stored messages, a Vec
    procs,      \* the request handlers in flight, one per connection
    guard,      \* InMemoryStorage inner: the thread that holds the MutexGuard
    threads     \* the threads calling the store: where each is in its call

domainVars == <<msg, requested, lastOp>>
addrVars == <<addr>>
apiVars == <<users, msgs, procs>>
lockVars == <<guard, threads>>
vars == <<msg, requested, lastOp, addr, users, msgs, procs, guard, threads>>

Call(op, keypair, content, count, result, log) ==
    [op |-> op, keypair |-> keypair, content |-> content, count |-> count,
     result |-> result, log |-> log]

\* The address codec at rest / holding a string / having decoded it. key is
\* the key pair the string was derived from, raw the bytes that were encoded,
\* bad whether a character outside the alphabet was put into the string.
Address(pc, key, raw, bad, text, result) ==
    [pc |-> pc, key |-> key, raw |-> raw, bad |-> bad, text |-> text,
     result |-> result]
AddrIdle == Address("start", 0, <<>>, FALSE, <<>>, AddrErr(""))

\* The connections that carry requests at the same time.
Conns == {"a", "b"}

\* A handler: idle, between two storage calls of sign_msg, or done with the
\* response it sent. keys are the key pairs sign_msg resolved, i the index of
\* the next one to apply; rejected records that a sign call made for the
\* request returned an error.
Handler(pc, op, msg_id, keys, i, status, body, rejected) ==
    [pc |-> pc, op |-> op, msg_id |-> msg_id, keys |-> keys, i |-> i,
     status |-> status, body |-> body, rejected |-> rejected]
HandlerIdle == Handler("idle", "", "", <<>>, 0, 0, "", FALSE)

\* The threads that call the store at the same time.
Threads == {"t1", "t2"}

\* A thread in a storage call: about to lock ("locking"), holding the guard
\* ("locked", "found" with the position of the message, "finished"), or not
\* in a call ("idle").
Thread(pc, op, msg_id, keypair, at) ==
    [pc |-> pc, op |-> op, msg_id |-> msg_id, keypair |-> keypair, at |-> at]
ThreadIdle == Thread("idle", "", "", 0, 0)

Init ==
    /\ msg = None
    /\ requested = None
    /\ lastOp = Call("none", 0, <<>>, 0, Ok, "")
    /\ addr = AddrIdle
    /\ users = <<>>
    /\ msgs = <<>>
    /\ procs = [c \in Conns |-> HandlerIdle]
    /\ guard = None
    /\ threads = [t \in Threads |-> ThreadIdle]

\* Message::new(content, pubkeys, required_signature_count)
NewMessage ==
    /\ msg = None
    /\ \E content \in Contents,
          pubkeys \in {[i \in 1..Len(l) |-> public_key(l[i])] : l \in KeyLists},
          required \in {None} \cup {Some(c) : c \in 0..MaxCount},
          id \in Uuids :
          /\ msg' = Some(Message_new(content, pubkeys, required, id))
          /\ requested' = required
          /\ lastOp' = Call("new", 0, content, 0, Ok, "")
    /\ UNCHANGED <<addrVars, apiVars, lockVars>>

\* msg.signature.sign(secp, content, keypair)
Sign ==
    /\ msg # None
    /\ \E content \in Contents, keypair \in Keypairs :
          LET r == Multisig_sign(msg[1].signature, content, keypair)
          IN  /\ msg' = Some([msg[1] EXCEPT !.signature = r.bindings])
              /\ lastOp' = Call("sign", keypair, content, 0, r.result, r.log)
    /\ UNCHANGED requested
    /\ UNCHANGED <<addrVars, apiVars, lockVars>>

\* Broken variant of verify: the signatures are taken out of the bindings
\* while they are collected.
Verify_take ==
    /\ msg # None
    /\ \E content \in Contents, count \in 0..MaxCount :
          LET r == Multisig_verify(msg[1].signature, content, count)
          IN  lastOp' = Call("verify", 0, content, count, r,
                             IF r = Ok THEN "verification successed" ELSE "")
    /\ msg' = Some([msg[1] EXCEPT !.signature =
                      [i \in 1..Len(msg[1].signature) |->
                          <<msg[1].signature[i][1], None>>]])
    /\ UNCHANGED requested
    /\ UNCHANGED <<addrVars, apiVars, lockVars>>

\* msg.signature.verify(secp, content, count_required)
Verify ==
    /\ msg # None
    /\ \E content \in Contents, count \in 0..MaxCount :
          LET r == Multisig_verify(msg[1].signature, content, count)
          IN  lastOp' = Call("verify", 0, content, count, r,
                             IF r = Ok THEN "verification successed" ELSE "")
    /\ UNCHANGED <<msg, requested>>
    /\ UNCHANGED <<addrVars, apiVars, lockVars>>

Next == NewMessage \/ Sign \/ Verify

Spec == Init /\ [][Next]_vars

\* ---------------------------------------------------------------- the storage-side message type
\* domain::messages::Message::new: signatures is Default::default(), the
\* empty Vec, whatever pubkeys holds.
messages_Message_new(content, pubkeys, required_signature_count) ==
    [content |-> content,
     signatures |-> <<>>,
     count_required |->
        Max(IF required_signature_count = None
            THEN Len(pubkeys)
            ELSE required_signature_count[1],
            Len(pubkeys))]

\* domain::messages::Message::sign_with: the result and the message after it.
messages_Message_sign_with(message, keypair) ==
    LET i == FindBinding(message.signatures, public_key(keypair))
    IN  IF i = 0
        THEN [result |-> PublicKeyNotFound, message |-> message]
        ELSE IF message.signatures[i][2] # None
        THEN [result |-> Ok, message |-> message]
        ELSE [result |-> Ok,
              message |-> [message EXCEPT !.signatures[i][2] =
                             Some(crypto_sign(message.content, secret_key(keypair)))]]

\* domain::messages::Message::verify.
messages_Message_verify(message) ==
    LET signatures == PresentSignatures(message.signatures)
        sig_count == Len(signatures)
    IN  IF sig_count < message.count_required
        THEN NotEnoughSignatures(sig_count, message.count_required)
        ELSE VerifyFrom(signatures, message.content, 1)

\* The arguments of messages::Message::new, kept beside the message.
Requested(pubkeys, required_signature_count) ==
    [pubkeys |-> pubkeys, required_signature_count |-> required_signature_count]

\* domain::messages::Message::new(content, pubkeys, required_signature_count)
MessagesNew ==
    /\ msg = None
    /\ \E content \in Contents,
          pubkeys \in {[i \in 1..Len(l) |-> public_key(l[i])] : l \in KeyLists},
          required \in {None} \cup {Some(c) : c \in 0..MaxCount} :
          /\ msg' = Some(messages_Message_new(content, pubkeys, required))
          /\ requested' = Some(Requested(pubkeys, required))
          /\ lastOp' = Call("new", 0, content, 0, Ok, "")
    /\ UNCHANGED <<addrVars, apiVars, lockVars>>

\* msg.sign_with(secp, keypair)
MessagesSignWith ==
    /\ msg # None
    /\ \E keypair \in Keypairs :
          LET r == messages_Message_sign_with(msg[1], keypair)
          IN  /\ msg' = Some(r.message)
              /\ lastOp' = Call("sign_with", keypair, msg[1].content, 0, r.result, "")
    /\ UNCHANGED requested
    /\ UNCHANGED <<addrVars, apiVars, lockVars>>

\* msg.verify(secp)
MessagesVerify ==
    /\ msg # None
    /\ lastOp' = Call("verify", 0, msg[1].content, msg[1].count_required,
                      messages_Message_verify(msg[1]), "")
    /\ UNCHANGED <<msg, requested>>
    /\ UNCHANGED <<addrVars, apiVars, lockVars>>

NextMessages == MessagesNew \/ MessagesSignWith \/ MessagesVerify

SpecMessages == Init /\ [][NextMessages]_vars

\* ---------------------------------------------------------------- address codec as a state machine
\* Version bytes and tamperings used to craft address strings.
Versions == {0, 1, 111}
Cuts == {"exact", "short", "long"}

\* The bytes of an address for pubkey with the given version byte, with a
\* right or a wrong checksum, cut short or extended by one byte.
CraftRaw(pubkey, version, flip, cut) ==
    LET payload == <<version>> \o hash160(pubkey)
        sum == checksum4(payload)
        checksum == IF flip THEN [sum EXCEPT ![4] = (sum[4] + 1) % 256] ELSE sum
        full == payload \o checksum
    IN  CASE cut = "exact" -> full
          [] cut = "short" -> SubSeq(full, 1, Len(full) - 1)
          [] cut = "long" -> Append(full, 0)

\* bt_addr_from_pk(keypair.public_key())
AddrEncode ==
    /\ addr.pc = "start"
    /\ \E keypair \in Keypairs :
          addr' = Address("encoded", keypair,
                          <<0>> \o hash160(public_key(keypair))
                               \o checksum4(<<0>> \o hash160(public_key(keypair))),
                          FALSE,
                          bt_addr_from_pk(public_key(keypair)),
                          AddrErr(""))
    /\ UNCHANGED <<domainVars, apiVars, lockVars>>

\* A client writes an address string of its own: the base58 text of crafted
\* bytes, possibly with a character that is not in the alphabet.
AddrCraft ==
    /\ addr.pc = "start"
    /\ \E keypair \in Keypairs, version \in Versions, flip \in BOOLEAN,
          cut \in Cuts, bad \in {"", "0", "l"} :
          LET raw == CraftRaw(public_key(keypair), version, flip, cut)
              text == to_base58(raw)
          IN  addr' = Address("crafted", keypair, raw, bad # "",
                              IF bad = "" THEN text
                              ELSE [text EXCEPT ![Len(text)] = bad],
                              AddrErr(""))
    /\ UNCHANGED <<domainVars, apiVars, lockVars>>

\* pkh_from_bt_addr(address)
AddrDecode ==
    /\ addr.pc \in {"encoded", "crafted"}
    /\ addr' = [addr EXCEPT !.pc = "decoded", !.result = pkh_from_bt_addr(addr.text)]
    /\ UNCHANGED <<domainVars, apiVars, lockVars>>

NextAddr == AddrEncode \/ AddrCraft \/ AddrDecode

SpecAddr == Init /\ [][NextAddr]_vars

\* ---------------------------------------------------------------- storage
\* storage::Error as the calls below return it, and Ok(()).
StorageOk == [tag |-> "Ok"]
MsgExists == [tag |-> "MsgExists"]
NoMsg == [tag |-> "NoMsg"]
StorageMultisig(error) == [tag |-> "Multisig", error |-> error]

\* The position in the Vec of the first message with the identifier, 0 if
\* there is none (iter().find).
RECURSIVE FindMsg(_, _, _)
FindMsg(store, msg_id, i) ==
    IF i > Len(store) THEN 0
    ELSE IF store[i].id = msg_id THEN i
    ELSE FindMsg(store, msg_id, i + 1)

\* store_msg: the result and the Vec after the call.
store_msg(store, message) ==
    IF \E i \in 1..Len(store) : store[i] = message
    THEN [result |-> MsgExists, msgs |-> store]
    ELSE [result |-> StorageOk, msgs |-> Append(store, message)]

\* get_msg: a clone of the message, if it is stored.
get_msg(store, msg_id) ==
    LET i == FindMsg(store, msg_id, 1)
    IN  IF i = 0 THEN None ELSE Some(store[i])

\* Broken variant of the modifier: it signs the content with a byte appended.
SignModifier_other_content(message, keypair) ==
    LET r == Multisig_sign(message.signature, message.content \o <<0>>, keypair)
    IN  [result |-> r.result,
         message |-> [message EXCEPT !.signature = r.bindings]]

\* Broken variant of the modifier: signing with a key whose binding already
\* holds a signature takes that signature away.
SignModifier_takes_back(message, keypair) ==
    LET i == FindBinding(message.signature, public_key(keypair))
        r == Multisig_sign(message.signature, message.content, keypair)
    IN  IF i # 0 /\ message.signature[i][2] # None
        THEN [result |-> Ok,
              message |-> [message EXCEPT !.signature[i][2] = None]]
        ELSE [result |-> r.result,
              message |-> [message EXCEPT !.signature = r.bindings]]

\* The modifier sign_msg hands to update_msg:
\* |msg| { msg.signature.sign(&secp, &msg.content, &keypair)?; Ok(()) }
SignModifier(message, keypair) ==
    LET r == Multisig_sign(message.signature, message.content, keypair)
    IN  [result |-> r.result,
         message |-> [message EXCEPT !.signature = r.bindings]]

\* Broken variant of update_msg: the modifier runs on a clone of the message
\* and the stored one stays as it was.
update_msg_on_clone(store, msg_id, keypair) ==
    LET i == FindMsg(store, msg_id, 1)
    IN  IF i = 0
        THEN [result |-> NoMsg, msgs |-> store, modifier |-> Ok]
        ELSE LET m == SignModifier(store[i], keypair)
             IN  [result |-> StorageOk, msgs |-> store, modifier |-> m.result]

\* Broken variant of update_msg: once the message is found, the modifier runs
\* on every stored message.
update_msg_every_message(store, msg_id, keypair) ==
    LET i == FindMsg(store, msg_id, 1)
    IN  IF i = 0
        THEN [result |-> NoMsg, msgs |-> store, modifier |-> Ok]
        ELSE [result |-> StorageOk,
              msgs |-> [j \in 1..Len(store) |->
                           SignModifier(store[j], keypair).message],
              modifier |-> SignModifier(store[i], keypair).result]

\* Broken variant of update_msg: when the modifier fails, the signatures of
\* the message are taken back.
update_msg_rolls_back(store, msg_id, keypair) ==
    LET i == FindMsg(store, msg_id, 1)
    IN  IF i = 0
        THEN [result |-> NoMsg, msgs |-> store, modifier |-> Ok]
        ELSE LET m == SignModifier(store[i], keypair)
             IN  [result |-> StorageOk,
                  msgs |-> IF m.result = Ok
                           THEN [store EXCEPT ![i] = m.message]
                           ELSE [store EXCEPT ![i].signature =
                                    [b \in 1..Len(store[i].signature) |->
                                        <<store[i].signature[b][1], None>>]],
                  modifier |-> m.result]

\* update_msg with the modifier of sign_msg, run under the store's lock: the
\* message is looked up, the modifier is called on it in place, and Ok(()) is
\* returned whatever the modifier returned (`with(msg);`). modifier is the
\* value the call drops.
update_msg(store, msg_id, keypair) ==
    LET i == FindMsg(store, msg_id, 1)
    IN  IF i = 0
        THEN [result |-> NoMsg, msgs |-> store, modifier |-> Ok]
        ELSE LET m == SignModifier(store[i], keypair)
             IN  [result |-> StorageOk,
                  msgs |-> [store EXCEPT ![i] = m.message],
                  modifier |-> m.result]

\* ---------------------------------------------------------------- API
\* impl From<storage::Error> for ErrorResponse
ErrorResponseFrom(error) ==
    CASE error.tag = "Internal" -> "InternalError"
      [] error.tag \in {"UserExists", "MsgExists"} -> "ConflictError"
      [] error.tag \in {"NoUser", "NoMsg"} -> "NotFoundError"
      [] error.tag = "Multisig" -> "BadRequest"

\* ErrorResponse::into_response: the status code.
StatusCode(response) ==
    CASE response \in {"UnexpectedError", "InternalError"} -> 500
      [] response = "BadRequest" -> 400
      [] response = "NotFoundError" -> 404
      [] response = "ConflictError" -> 409

\* The text of a multisig::Error (its Display).
ErrorText(error) ==
    CASE error.tag = "PublicKeyNotFound" -> "No public key found"
      [] error.tag = "NotEnoughSignatures" ->
            "Not enough signatures, provided: " \o ToString(error.provided)
                \o ", required: " \o ToString(error.required)
      [] OTHER -> "signature failed verification"

\* The user the store holds and its key pairs by KeyId (the user and the three
\* key pairs tests/main.rs creates).
TestUser == [name |-> "testuser", keys |-> <<1, 2, 3>>]

\* The key strings clients send: the address of each key pair that exists,
\* held by a user or not, and a string that is no address.
BtAddr == [keypair \in Keypairs |-> bt_addr_from_pk(public_key(keypair))]
BadKey == <<"b", "a", "d", "k", "e", "y">>
KeyStrings == {BtAddr[keypair] : keypair \in Keypairs} \cup {BadKey}

\* crypto::pkh_from_bt_addr on each of the key strings.
PkhOf == [key \in KeyStrings |-> pkh_from_bt_addr(key)]

\* The key lists of the requests.
NewMsgKeys ==
    {<<BtAddr[1], BtAddr[2]>>, <<BtAddr[1]>>, <<BtAddr[1], BtAddr[1]>>,
     <<BtAddr[4]>>, <<BadKey>>, <<BtAddr[1], BadKey>>, <<BtAddr[4], BadKey>>,
     <<BadKey, BtAddr[1], BtAddr[1]>>}
SignKeys ==
    {<<BtAddr[1]>>, <<BtAddr[2]>>, <<BtAddr[1], BtAddr[2]>>, <<BtAddr[3]>>,
     <<BtAddr[1], BtAddr[3]>>, <<BtAddr[4]>>, <<BadKey, BtAddr[1]>>,
     <<BtAddr[1], BadKey>>, <<BtAddr[1], BtAddr[4]>>, <<BtAddr[2], BtAddr[2]>>,
     <<BtAddr[1], BtAddr[3], BtAddr[2]>>}
ApiContents == {<<72>>}

\* The identifiers Uuid::new_v4 gives to the messages, in the order it gives
\* them.
MsgUuids == <<"uuid-1", "uuid-2">>
MsgIds == {MsgUuids[i] : i \in 1..Len(MsgUuids)}

\* The key pairs of all users (the values of the map by public key hash).
AllKeypairs(all_users) ==
    UNION {{all_users[u].keys[k] : k \in DOMAIN all_users[u].keys} :
              u \in DOMAIN all_users}

Extracted(keypairs) == [ok |-> TRUE, keypairs |-> keypairs, error |-> ""]
ExtractErr(error) == [ok |-> FALSE, keypairs |-> <<>>, error |-> error]

\* The map/collect of extract_selected_keypairs from keys[i] on: the first key
\* that fails ends it; a key that resolves is removed from the map.
RECURSIVE ExtractFrom(_, _, _, _)
ExtractFrom(all_keypairs, keys, i, selected) ==
    IF i > Len(keys) THEN Extracted(selected)
    ELSE LET pkh == PkhOf[keys[i]]
             found == {k \in all_keypairs : hash160(public_key(k)) = pkh.hash}
         IN  IF ~pkh.ok THEN ExtractErr("BadRequest")
             ELSE IF found = {} THEN ExtractErr("NotFoundError")
             ELSE ExtractFrom(all_keypairs \ found, keys, i + 1,
                              Append(selected, CHOOSE k \in found : TRUE))

\* Broken variant of extract_selected_keypairs: key strings that fail to
\* decode are skipped.
extract_selected_keypairs_skip_invalid(all_users, keys) ==
    ExtractFrom(AllKeypairs(all_users),
                SelectSeq(keys, LAMBDA key : PkhOf[key].ok), 1, <<>>)

\* Broken variant of extract_selected_keypairs: a resolved key stays in the
\* map, so every occurrence of an address resolves.
extract_selected_keypairs_keeps_resolved(all_users, keys) ==
    LET all_keypairs == AllKeypairs(all_users)
        found(key) == {k \in all_keypairs :
                          hash160(public_key(k)) = PkhOf[key].hash}
    IN  IF \E i \in 1..Len(keys) : ~PkhOf[keys[i]].ok \/ found(keys[i]) = {}
        THEN ExtractFrom(all_keypairs, keys, 1, <<>>)
        ELSE Extracted([i \in 1..Len(keys) |-> CHOOSE k \in found(keys[i]) : TRUE])

extract_selected_keypairs(all_users, keys) ==
    ExtractFrom(AllKeypairs(all_users), keys, 1, <<>>)

Responded(op, status, body, rejected) ==
    Handler("done", op, "", <<>>, 0, status, body, rejected)

\* The store as tests/main.rs sets it up before it posts a message: one user
\* with three key pairs, no message, no request in flight.
InitApi ==
    /\ msg = None
    /\ requested = None
    /\ lastOp = Call("none", 0, <<>>, 0, Ok, "")
    /\ addr = AddrIdle
    /\ users = <<TestUser>>
    /\ msgs = <<>>
    /\ procs = [c \in Conns |-> HandlerIdle]
    /\ guard = None
    /\ threads = [t \in Threads |-> ThreadIdle]

\* What a handler returns: the response and the Vec of messages after it.
Returned(status, body, store) == [status |-> status, body |-> body, msgs |-> store]

\* new_msg on the given users and messages, id being the identifier
\* Uuid::new_v4 gives.
new_msg(all_users, store, content, keys, required_signature_count, id) ==
    LET selected == extract_selected_keypairs(all_users, keys)
        pubkeys == [i \in 1..Len(selected.keypairs) |->
                       public_key(selected.keypairs[i])]
        message == Message_new(content, pubkeys, required_signature_count, id)
        stored == store_msg(store, message)
    IN  IF ~selected.ok
        THEN Returned(StatusCode(selected.error), "", store)
        ELSE IF stored.result # StorageOk
        THEN Returned(StatusCode(ErrorResponseFrom(stored.result)), "", store)
        ELSE Returned(200, "msg_id", stored.msgs)

\* POST /msg: new_msg, with the next identifier Uuid::new_v4 gives.
NewMsg(c) ==
    /\ procs[c].pc # "signing"
    /\ Len(msgs) < Len(MsgUuids)
    /\ \E content \in ApiContents, keys \in NewMsgKeys,
          required_signature_count \in {None, Some(1)} :
          LET r == new_msg(users, msgs, content, keys, required_signature_count,
                           MsgUuids[Len(msgs) + 1])
          IN  /\ msgs' = r.msgs
              /\ procs' = [procs EXCEPT ![c] =
                     Responded("new_msg", r.status, r.body, FALSE)]
    /\ UNCHANGED <<domainVars, addrVars, lockVars, users>>

\* Broken variant of sign_msg's start: the keys are resolved as far as they
\* resolve, and the loop runs over those.
sign_msg_extract_prefix(all_users, msg_id, keys) ==
    LET failing == {i \in 1..Len(keys) :
                       ~extract_selected_keypairs(all_users, SubSeq(keys, 1, i)).ok}
        first == IF failing = {} THEN Len(keys) + 1
                 ELSE CHOOSE i \in failing : \A h \in failing : i <= h
        selected == extract_selected_keypairs(all_users, SubSeq(keys, 1, first - 1))
    IN  IF first = 1
        THEN Responded("sign_msg",
                       StatusCode(extract_selected_keypairs(all_users, keys).error),
                       "", FALSE)
        ELSE Handler("signing", "sign_msg", msg_id, selected.keypairs, 1, 0, "", FALSE)

\* sign_msg up to its first update_msg: the handler after
\* extract_selected_keypairs(&state, req.keys).await?
sign_msg_extract(all_users, msg_id, keys) ==
    LET selected == extract_selected_keypairs(all_users, keys)
    IN  IF ~selected.ok
        THEN Responded("sign_msg", StatusCode(selected.error), "", FALSE)
        ELSE Handler("signing", "sign_msg", msg_id, selected.keypairs, 1, 0, "", FALSE)

\* POST /msg/{msg_id}: sign_msg up to its first update_msg, the keys resolved.
SignMsgExtract(c) ==
    /\ procs[c].pc # "signing"
    /\ \E msg_id \in MsgIds, keys \in SignKeys :
          procs' = [procs EXCEPT ![c] = sign_msg_extract(users, msg_id, keys)]
    /\ UNCHANGED <<domainVars, addrVars, lockVars, users, msgs>>

\* One turn of the loop of sign_msg for the handler h: update_msg for the
\* next key pair, then the error response, the next turn, or
\* Ok(String::new()) after the last. The handler and the messages after it.
sign_msg_turn(store, h) ==
    LET u == update_msg(store, h.msg_id, h.keys[h.i])
        rejected == h.rejected \/ u.modifier # Ok
    IN  [msgs |-> u.msgs,
         handler |->
            IF u.result # StorageOk
            THEN Responded("sign_msg", StatusCode(ErrorResponseFrom(u.result)),
                           "", rejected)
            ELSE IF h.i = Len(h.keys)
            THEN Responded("sign_msg", 200, "", rejected)
            ELSE [h EXCEPT !.i = h.i + 1, !.rejected = rejected]]

\* One turn of the loop of sign_msg on connection c.
SignMsgUpdate(c) ==
    /\ procs[c].pc = "signing"
    /\ LET r == sign_msg_turn(msgs, procs[c])
       IN  /\ msgs' = r.msgs
           /\ procs' = [procs EXCEPT ![c] = r.handler]
    /\ UNCHANGED <<domainVars, addrVars, lockVars, users>>

\* The turns of handler h run to the end with no other request in between.
RECURSIVE SignTurns(_, _)
SignTurns(store, h) ==
    IF h.pc # "signing"
    THEN Returned(h.status, h.body, store)
    ELSE LET r == sign_msg_turn(store, h)
         IN  SignTurns(r.msgs, r.handler)

\* sign_msg run from its start to its response with no other request in
\* between.
sign_msg(all_users, store, msg_id, keys) ==
    SignTurns(store, sign_msg_extract(all_users, msg_id, keys))

\* verify_msg_signature on the given messages.
verify_msg_signature(store, msg_id) ==
    LET found == get_msg(store, msg_id)
        r == Multisig_verify(found[1].signature, found[1].content,
                             found[1].count_required)
    IN  IF found = None
        THEN Returned(StatusCode("NotFoundError"), "", store)
        ELSE Returned(200, IF r = Ok THEN "success" ELSE ErrorText(r), store)

\* GET /msg/{msg_id}: verify_msg_signature.
VerifyMsg(c) ==
    /\ procs[c].pc # "signing"
    /\ \E msg_id \in MsgIds :
          LET r == verify_msg_signature(msgs, msg_id)
          IN  procs' = [procs EXCEPT ![c] =
                 Responded("verify_msg_signature", r.status, r.body, FALSE)]
    /\ UNCHANGED <<domainVars, addrVars, lockVars, users, msgs>>

NextApi ==
    \E c \in Conns : NewMsg(c) \/ SignMsgExtract(c) \/ SignMsgUpdate(c) \/ VerifyMsg(c)

SpecApi == InitApi /\ [][NextApi]_vars

\* ---------------------------------------------------------------- the store's lock
\* Broken variant of lock: the guard is handed out whether or not another
\* thread holds it.
lock_without_waiting(held, t) == [acquired |-> TRUE, guard |-> Some(t)]

\* InMemoryStorage::lock, self.inner.lock(): the call returns the guard once
\* no other thread holds it.
lock(held, t) == [acquired |-> held = None, guard |-> Some(t)]

\* The message a store_msg call stores: two of the user's keys, no count.
NewStored(msg_id) ==
    Message_new(<<72>>, <<public_key(1), public_key(2)>>, None, msg_id)
StoredIds == {msgs[j].id : j \in 1..Len(msgs)}

\* The store once the user of tests/main.rs holds its key pairs, no thread in
\* a call.
InitLock ==
    /\ msg = None
    /\ requested = None
    /\ lastOp = Call("none", 0, <<>>, 0, Ok, "")
    /\ addr = AddrIdle
    /\ users = <<TestUser>>
    /\ msgs = <<>>
    /\ procs = [c \in Conns |-> HandlerIdle]
    /\ guard = None
    /\ threads = [t \in Threads |-> ThreadIdle]

\* A handler calls store_msg with a message of a new identifier, or get_msg
\* or update_msg with the sign modifier for a key pair.
StorageCall(t) ==
    /\ threads[t].pc = "idle"
    /\ \/ \E msg_id \in MsgIds \ StoredIds :
             /\ \A o \in Threads :
                   ~(threads[o].op = "store_msg" /\ threads[o].msg_id = msg_id)
             /\ threads' = [threads EXCEPT ![t] =
                               Thread("locking", "store_msg", msg_id, 0, 0)]
       \/ \E msg_id \in MsgIds :
             threads' = [threads EXCEPT ![t] =
                            Thread("locking", "get_msg", msg_id, 0, 0)]
       \/ \E msg_id \in MsgIds, keypair \in AllKeypairs(users) :
             threads' = [threads EXCEPT ![t] =
                            Thread("locking", "update_msg", msg_id, keypair, 0)]
    /\ UNCHANGED <<domainVars, addrVars, users, msgs, procs, guard>>

\* let mut lock = self.lock()?;
Lock(t) ==
    /\ threads[t].pc = "locking"
    /\ lock(guard, t).acquired
    /\ guard' = lock(guard, t).guard
    /\ threads' = [threads EXCEPT ![t].pc = "locked"]
    /\ UNCHANGED <<domainVars, addrVars, users, msgs, procs>>

\* The body of store_msg under the guard.
StoreBody(t) ==
    /\ threads[t].pc = "locked"
    /\ threads[t].op = "store_msg"
    /\ msgs' = store_msg(msgs, NewStored(threads[t].msg_id)).msgs
    /\ threads' = [threads EXCEPT ![t].pc = "finished"]
    /\ UNCHANGED <<domainVars, addrVars, users, procs, guard>>

\* The body of get_msg under the guard: the message is cloned.
GetBody(t) ==
    /\ threads[t].pc = "locked"
    /\ threads[t].op = "get_msg"
    /\ threads' = [threads EXCEPT ![t].pc = "finished"]
    /\ UNCHANGED <<domainVars, addrVars, users, msgs, procs, guard>>

\* update_msg under the guard: the lookup. A missing message ends the call
\* with NoMsg, and the guard is dropped on the way out.
UpdateFind(t) ==
    /\ threads[t].pc = "locked"
    /\ threads[t].op = "update_msg"
    /\ LET at == FindMsg(msgs, threads[t].msg_id, 1)
       IN  IF at = 0
           THEN /\ threads' = [threads EXCEPT ![t] = ThreadIdle]
                /\ guard' = None
           ELSE /\ threads' = [threads EXCEPT ![t].pc = "found", ![t].at = at]
                /\ UNCHANGED guard
    /\ UNCHANGED <<domainVars, addrVars, users, msgs, procs>>

\* update_msg under the guard: with(msg) on the message found.
UpdateModify(t) ==
    /\ threads[t].pc = "found"
    /\ msgs' = [msgs EXCEPT ![threads[t].at] =
                   SignModifier(msgs[threads[t].at], threads[t].keypair).message]
    /\ threads' = [threads EXCEPT ![t].pc = "finished"]
    /\ UNCHANGED <<domainVars, addrVars, users, procs, guard>>

\* The call returns and the guard goes out of scope.
Unlock(t) ==
    /\ threads[t].pc = "finished"
    /\ guard' = None
    /\ threads' = [threads EXCEPT ![t] = ThreadIdle]
    /\ UNCHANGED <<domainVars, addrVars, users, msgs, procs>>

NextLock ==
    \E t \in Threads :
        \/ StorageCall(t) \/ Lock(t) \/ StoreBody(t) \/ GetBody(t)
        \/ UpdateFind(t) \/ UpdateModify(t) \/ Unlock(t)

SpecLock == InitLock /\ [][NextLock]_vars

\* ---------------------------------------------------------------- the user handlers
\* storage::Error::UserExists and NoUser.
UserExists == [tag |-> "UserExists"]
NoUser == [tag |-> "NoUser"]

\* A domain::user::User: keys is the map from KeyId to key pair.
User(id, name, keys) == [id |-> id, name |-> name, keys |-> keys]

\* The names a request can carry and the identifiers Uuid::new_v4 gives to
\* the users, in the order of their creation.
Usernames == {"testuser", "alice"}
UserUuids == <<"user-1", "user-2">>

\* The position in the store of the user with the identifier, 0 if there is
\* none (the HashMap holds one user for an identifier).
RECURSIVE FindUser(_, _, _)
FindUser(all_users, user_id, i) ==
    IF i > Len(all_users) THEN 0
    ELSE IF all_users[i].id = user_id THEN i
    ELSE FindUser(all_users, user_id, i + 1)

\* The position in the store of the first user with the name, 0 if there is
\* none.
RECURSIVE FindUsername(_, _, _)
FindUsername(all_users, username, i) ==
    IF i > Len(all_users) THEN 0
    ELSE IF all_users[i].name = username THEN i
    ELSE FindUsername(all_users, username, i + 1)

\* store_user: the result and the users after the call.
store_user(all_users, user) ==
    IF FindUser(all_users, user.id, 1) # 0
    THEN [result |-> UserExists, users |-> all_users]
    ELSE [result |-> StorageOk, users |-> Append(all_users, user)]

\* get_user, called by new_keypair with the name of the path: a clone of the
\* user, taken under the lock, which is released when the call returns.
get_user(all_users, username) ==
    LET i == FindUsername(all_users, username, 1)
    IN  IF i = 0 THEN None ELSE Some(all_users[i])

\* update_user: the stored user with the identifier of the given one is
\* replaced by the given one as a whole (and_modify(|u| *u = user)).
update_user(all_users, user) ==
    LET i == FindUser(all_users, user.id, 1)
    IN  IF i = 0
        THEN [result |-> NoUser, users |-> all_users]
        ELSE [result |-> StorageOk, users |-> [all_users EXCEPT ![i] = user]]

\* User::add_keypair: the key pair is inserted under the largest KeyId of the
\* map plus one (1 for an empty map); an entry under that KeyId is replaced.
add_keypair(user, keypair) ==
    LET ids == DOMAIN user.keys
        last_id == IF ids = {} THEN 0
                   ELSE CHOOSE k \in ids : \A h \in ids : h <= k
    IN  [user EXCEPT !.keys =
            [k \in ids \cup {last_id + 1} |->
                IF k = last_id + 1 THEN keypair ELSE user.keys[k]]]

\* A new_user or new_keypair request on a connection: the user new_keypair
\* got from the store, the key pair it generated and its status code.
UserHandler(pc, op, username, user, keypair, status) ==
    [pc |-> pc, op |-> op, username |-> username, user |-> user,
     keypair |-> keypair, status |-> status]
UserHandlerIdle == UserHandler("idle", "", "", None, 0, 0)

\* The key pairs of the user a handler holds a copy of, if it holds one.
HandlerKeypairs(h) ==
    IF h.user = None THEN {}
    ELSE {h.user[1].keys[k] : k \in DOMAIN h.user[1].keys}

\* The key pairs crypto::new_keypair can return: one that no user holds, no
\* request has generated and no request holds in its copy of a user.
crypto_new_keypair(all_users, handlers) ==
    Keypairs \ (AllKeypairs(all_users)
                \cup {handlers[c].keypair : c \in DOMAIN handlers}
                \cup UNION {HandlerKeypairs(handlers[c]) : c \in DOMAIN handlers})

\* The service after construction: no user, no message, no request.
InitUsers ==
    /\ msg = None
    /\ requested = None
    /\ lastOp = Call("none", 0, <<>>, 0, Ok, "")
    /\ addr = AddrIdle
    /\ users = <<>>
    /\ msgs = <<>>
    /\ procs = [c \in Conns |-> UserHandlerIdle]
    /\ guard = None
    /\ threads = [t \in Threads |-> ThreadIdle]

\* POST /user: new_user stores a user with the name, a new identifier and no
\* key pair.
NewUser(c) ==
    /\ procs[c].pc # "got"
    /\ Len(users) < Len(UserUuids)
    /\ \E name \in Usernames :
          LET r == store_user(users, User(UserUuids[Len(users) + 1], name, <<>>))
          IN  /\ users' = r.users
              /\ procs' = [procs EXCEPT ![c] =
                    UserHandler("done", "new_user", name, None, 0,
                                IF r.result = StorageOk THEN 200
                                ELSE StatusCode(ErrorResponseFrom(r.result)))]
    /\ UNCHANGED <<domainVars, addrVars, lockVars, msgs>>

\* POST /user/{username}/keypair: new_keypair up to the answer of get_user,
\* NotFoundError when there is no such user.
NewKeypairGet(c) ==
    /\ procs[c].pc # "got"
    /\ \E username \in Usernames :
          LET found == get_user(users, username)
          IN  procs' = [procs EXCEPT ![c] =
                 IF found = None
                 THEN UserHandler("done", "new_keypair", username, None, 0,
                                  StatusCode("NotFoundError"))
                 ELSE UserHandler("got", "new_keypair", username, found, 0, 0)]
    /\ UNCHANGED <<domainVars, addrVars, lockVars, users, msgs>>

\* new_keypair from the answer of get_user to its response: the key pair is
\* generated and added to the handler's copy of the user, and update_user
\* stores the copy.
NewKeypairUpdate(c) ==
    /\ procs[c].pc = "got"
    /\ \E keypair \in crypto_new_keypair(users, procs) :
          LET user == add_keypair(procs[c].user[1], keypair)
              r == update_user(users, user)
          IN  /\ users' = r.users
              /\ procs' = [procs EXCEPT ![c] =
                    UserHandler("done", "new_keypair", procs[c].username,
                                Some(user), keypair,
                                IF r.result = StorageOk THEN 200
                                ELSE StatusCode(ErrorResponseFrom(r.result)))]
    /\ UNCHANGED <<domainVars, addrVars, lockVars, msgs>>

NextUsers ==
    \E c \in Conns : NewUser(c) \/ NewKeypairGet(c) \/ NewKeypairUpdate(c)

SpecUsers == InitUsers /\ [][NextUsers]_vars

\* ---------------------------------------------------------------- notions used by the properties
HasMsg == msg # None
\* The bindings, content and stored count of the message (when there is one).
Bindings == msg[1].signature
Content == msg[1].content
CountRequired == msg[1].count_required

\* The indices of the bindings that hold a signature.
Signed(bindings) == {i \in 1..Len(bindings) : bindings[i][2] # None}
\* The public keys of the bindings.
KeysOf(bindings) == {bindings[i][1] : i \in 1..Len(bindings)}
\* Binding i holds the signature its own key pair makes over content.
ValidOver(bindings, i, content) ==
    \E kp \in Keypairs :
        /\ public_key(kp) = bindings[i][1]
        /\ bindings[i][2] = Some(crypto_sign(content, secret_key(kp)))
\* The keys that hold a signature of their own over content.
KeysSignedOver(bindings, content) ==
    {bindings[i][1] : i \in {j \in Signed(bindings) : ValidOver(bindings, j, content)}}
DistinctKeys(bindings) ==
    \A i, j \in 1..Len(bindings) : i # j => bindings[i][1] # bindings[j][1]
\* The last call was verify on the message's own content with its stored count.
VerifiedStored ==
    /\ HasMsg
    /\ lastOp.op = "verify"
    /\ lastOp.content = Content
    /\ lastOp.count = CountRequired
\* Every signature present was made over the message's content.
OnlyContentSigned ==
    \A i \in Signed(Bindings) : ValidOver(Bindings, i, Content)

\* ---------------------------------------------------------------- C1
\* C1: threshold quorum. For a message created with n keys and a requested
\* count r, 1 <= r <= n, the keys distinct, verify with the stored required count succeeds as soon as r
\* distinct assigned keys have signed the message content (and nothing else
\* was signed), even while fewer than n keys have signed.
C1_ThresholdQuorum ==
    (/\ VerifiedStored
     /\ requested # None
     /\ requested[1] >= 1
     /\ requested[1] <= Len(Bindings)
     /\ DistinctKeys(Bindings)
     /\ OnlyContentSigned
     /\ Cardinality(KeysSignedOver(Bindings, Content)) >= requested[1])
    => lastOp.result = Ok

\* ---------------------------------------------------------------- C2
\* C2: the stored required count never exceeds the number of bindings.
C2_RequiredAtMostBindings ==
    HasMsg => CountRequired <= Len(Bindings)

\* ---------------------------------------------------------------- C3
\* C3: in every state of the message the stored required count is
\* max(requested count if given else number of keys, number of keys); when the
\* count was omitted it equals the number of keys.
C3_RequiredCountIsMax ==
    HasMsg =>
        /\ CountRequired =
              Max(IF requested = None THEN Len(Bindings) ELSE requested[1],
                  Len(Bindings))
        /\ requested = None => CountRequired = Len(Bindings)

\* A message of three keys created with a requested count of two, one key
\* signed: its stored count is three.
C3_Witness ==
    /\ HasMsg
    /\ Len(Bindings) = 3
    /\ requested = Some(2)
    /\ CountRequired = 3
    /\ Cardinality(Signed(Bindings)) = 1

\* ---------------------------------------------------------------- C4
\* C4: for a message of n distinct keys created without a required count,
\* whose keys sign the message content in any order: verify with the stored
\* count fails with NotEnoughSignatures(s, n) while s < n keys have signed,
\* and succeeds once all n have (empty content included).
C4_DefaultQuorumAllKeys ==
    (/\ VerifiedStored
     /\ requested = None
     /\ DistinctKeys(Bindings)
     /\ OnlyContentSigned)
    => LET s == Cardinality(Signed(Bindings))
           n == Len(Bindings)
       IN  /\ s < n => lastOp.result = NotEnoughSignatures(s, n)
           /\ s = n => lastOp.result = Ok

\* Three distinct keys, no count given, empty content, all three signed it:
\* verify with the stored count succeeded.
C4_Witness ==
    /\ VerifiedStored
    /\ requested = None
    /\ DistinctKeys(Bindings)
    /\ Len(Bindings) = 3
    /\ Content = <<>>
    /\ OnlyContentSigned
    /\ Cardinality(Signed(Bindings)) = 3
    /\ lastOp.result = Ok

\* ---------------------------------------------------------------- C5
\* C5: verify(content, count) returns Ok exactly when at least count bindings
\* hold a signature and every signature present is valid for its binding's
\* key over the content.
C5_VerifyOkIffQuorumAndAllValid ==
    (HasMsg /\ lastOp.op = "verify") =>
        (lastOp.result = Ok <=>
            /\ Cardinality(Signed(Bindings)) >= lastOp.count
            /\ \A i \in Signed(Bindings) : ValidOver(Bindings, i, lastOp.content))

\* verify failed although at least count (>= 1) of the signatures present are
\* valid, because one other signature present is not.
C5_Witness ==
    /\ HasMsg
    /\ lastOp.op = "verify"
    /\ lastOp.count >= 1
    /\ Cardinality({i \in Signed(Bindings) :
                       ValidOver(Bindings, i, lastOp.content)}) >= lastOp.count
    /\ \E i \in Signed(Bindings) : ~ValidOver(Bindings, i, lastOp.content)
    /\ lastOp.result = IncorrectSignature

\* ---------------------------------------------------------------- C6
\* C6: when fewer signatures are present than the count asked for, verify
\* fails with NotEnoughSignatures(present, count), also when a signature
\* present is invalid.
C6_NotEnoughTakesPrecedence ==
    (/\ HasMsg
     /\ lastOp.op = "verify"
     /\ Cardinality(Signed(Bindings)) < lastOp.count)
    => lastOp.result =
          NotEnoughSignatures(Cardinality(Signed(Bindings)), lastOp.count)

\* verify reported NotEnoughSignatures(2, 3) while one of the two signatures
\* present is invalid for the content verified.
C6_Witness ==
    /\ HasMsg
    /\ lastOp.op = "verify"
    /\ Cardinality(Signed(Bindings)) = 2
    /\ lastOp.count = 3
    /\ \E i \in Signed(Bindings) : ~ValidOver(Bindings, i, lastOp.content)
    /\ lastOp.result = NotEnoughSignatures(2, 3)

\* ---------------------------------------------------------------- C7
\* C7: signature monotonicity. In every step a binding that holds a
\* signature keeps exactly that signature; no binding is cleared, replaced or
\* removed.
C7_SignatureMonotonic ==
    [][HasMsg =>
          /\ HasMsg'
          /\ Len(Bindings') = Len(Bindings)
          /\ \A i \in Signed(Bindings) : Bindings'[i] = Bindings[i]]_vars

\* sign was called with other content for a key whose binding was already
\* signed: the binding still holds the earlier signature.
C7_Witness ==
    /\ HasMsg
    /\ lastOp.op = "sign"
    /\ lastOp.result = Ok
    /\ \E i \in Signed(Bindings) :
          /\ Bindings[i][1] = public_key(lastOp.keypair)
          /\ ~ValidOver(Bindings, i, lastOp.content)

\* ---------------------------------------------------------------- C8
\* C8: idempotent signing. A sign call that directly follows a successful
\* sign call with the same key pair returns Ok and leaves the message as the
\* first call left it.
C8_SignIdempotent ==
    [][(/\ lastOp.op = "sign"
        /\ lastOp.result = Ok
        /\ lastOp'.op = "sign"
        /\ lastOp'.keypair = lastOp.keypair)
       => (lastOp'.result = Ok /\ msg' = msg)]_vars

\* A second sign call with an assigned key pair returned Ok after logging
\* that the signature exists already.
C8_Witness ==
    /\ HasMsg
    /\ lastOp.op = "sign"
    /\ lastOp.result = Ok
    /\ lastOp.log = "signature alreay exists, skip signing"
    /\ public_key(lastOp.keypair) \in KeysOf(Bindings)

\* ---------------------------------------------------------------- C9
\* C9: unauthorized key rejection. sign with a key pair whose public key is
\* not among the bindings returns PublicKeyNotFound and leaves the message,
\* and so the result of every later verify, unchanged.
C9_UnassignedKeyRejected ==
    [][(/\ HasMsg
        /\ lastOp'.op = "sign"
        /\ public_key(lastOp'.keypair) \notin KeysOf(Bindings))
       => /\ lastOp'.result = PublicKeyNotFound
          /\ msg' = msg
          /\ \A c \in Contents, k \in 0..MaxCount :
                Multisig_verify(Bindings', c, k) = Multisig_verify(Bindings, c, k)]_vars

\* sign was rejected with PublicKeyNotFound on a message that has a signed
\* and an unsigned binding.
C9_Witness ==
    /\ HasMsg
    /\ lastOp.op = "sign"
    /\ lastOp.result = PublicKeyNotFound
    /\ public_key(lastOp.keypair) \notin KeysOf(Bindings)
    /\ \E i, j \in 1..Len(Bindings) : Bindings[i][2] # None /\ Bindings[j][2] = None

\* ---------------------------------------------------------------- C10
\* C10: each public key appears at most once among the bindings.
C10_KeysPairwiseDistinct ==
    HasMsg => DistinctKeys(Bindings)

\* ---------------------------------------------------------------- C11
\* C11 (as claimed): in every state every signature present was made over the
\* message's own content with the private key of the binding's public key.
C11_SignaturesOverOwnContent ==
    HasMsg => \A i \in Signed(Bindings) : ValidOver(Bindings, i, Content)

\* C11 (amended): a binding is filled only by a sign call made with the key
\* pair of the binding's public key, and the signature stored is that key
\* pair's signature over the content handed to that call; so every signature
\* present is a signature by the binding's own key over some content, and it
\* is over the message's content when the call was handed that content.
C11_SignatureOverContentHandedToSign ==
    [][HasMsg =>
          /\ \A i \in 1..Len(Bindings) :
                (Bindings[i][2] = None /\ Bindings'[i][2] # None) =>
                    /\ lastOp'.op = "sign"
                    /\ Bindings[i][1] = public_key(lastOp'.keypair)
                    /\ Bindings'[i][2] =
                          Some(crypto_sign(lastOp'.content,
                                           secret_key(lastOp'.keypair)))
          /\ \A i \in Signed(Bindings') :
                \E c \in Contents : ValidOver(Bindings', i, c)]_vars

\* sign was handed content other than the message's and filled the binding
\* of its key with the signature over that other content.
C11_Witness ==
    /\ HasMsg
    /\ lastOp.op = "sign"
    /\ lastOp.result = Ok
    /\ lastOp.log = ""
    /\ lastOp.content # Content
    /\ \E i \in Signed(Bindings) :
          /\ Bindings[i][1] = public_key(lastOp.keypair)
          /\ ValidOver(Bindings, i, lastOp.content)
          /\ ~ValidOver(Bindings, i, Content)

\* ---------------------------------------------------------------- C12
\* C12: content binding. When at least count signatures are present and one
\* of them was made over content other than the content verified, verify
\* fails with Secp256k1(IncorrectSignature): neither NotEnoughSignatures nor
\* success.
C12_ContentBinding ==
    (/\ HasMsg
     /\ lastOp.op = "verify"
     /\ Cardinality(Signed(Bindings)) >= lastOp.count
     /\ \E i \in Signed(Bindings) : ~ValidOver(Bindings, i, lastOp.content))
    => lastOp.result = IncorrectSignature

\* All three assigned keys signed content other than the message's; verify
\* of the message's content with the stored count failed with
\* IncorrectSignature.
C12_Witness ==
    /\ VerifiedStored
    /\ Len(Bindings) = 3
    /\ CountRequired = 3
    /\ Cardinality(Signed(Bindings)) = 3
    /\ \A i \in Signed(Bindings) :
          \E c \in Contents : c # Content /\ ValidOver(Bindings, i, c)
    /\ lastOp.result = IncorrectSignature

\* ---------------------------------------------------------------- C13
\* C13: frame of sign. No step changes the number, order or public keys of
\* the bindings, nor the id, content or required count; a sign call changes
\* at most one binding's signature slot, and only an empty slot of a binding
\* whose public key is the signer's.
C13_SignFrame ==
    [][HasMsg =>
          /\ HasMsg'
          /\ msg'[1].id = msg[1].id
          /\ Content' = Content
          /\ CountRequired' = CountRequired
          /\ Len(Bindings') = Len(Bindings)
          /\ \A i \in 1..Len(Bindings) : Bindings'[i][1] = Bindings[i][1]
          /\ lastOp'.op = "sign" =>
                LET changed == {i \in 1..Len(Bindings) :
                                   Bindings'[i][2] # Bindings[i][2]}
                IN  /\ Cardinality(changed) <= 1
                    /\ \A i \in changed :
                          /\ Bindings[i][1] = public_key(lastOp'.keypair)
                          /\ Bindings[i][2] = None]_vars

\* A sign call filled one slot of a message that lists the signer's key
\* twice: the other binding of that key is still empty.
C13_Witness ==
    /\ HasMsg
    /\ lastOp.op = "sign"
    /\ lastOp.result = Ok
    /\ lastOp.log = ""
    /\ \E i, j \in 1..Len(Bindings) :
          /\ i # j
          /\ Bindings[i][1] = public_key(lastOp.keypair)
          /\ Bindings[j][1] = public_key(lastOp.keypair)
          /\ Bindings[i][2] # None
          /\ Bindings[j][2] = None

\* ---------------------------------------------------------------- C14
\* C14: verify is stateless and repeatable. A verify call changes no field
\* of the message, and verify called again with the same content and count
\* on the message as the call left it returns the same result.
C14_VerifyStateless ==
    [][lastOp'.op = "verify" =>
          /\ msg' = msg
          /\ requested' = requested
          /\ Multisig_verify(Bindings', lastOp'.content, lastOp'.count)
                = lastOp'.result]_vars

\* verify succeeded on two signatures with a count of two.
C14_Witness ==
    /\ HasMsg
    /\ lastOp.op = "verify"
    /\ lastOp.count = 2
    /\ Cardinality(Signed(Bindings)) = 2
    /\ lastOp.result = Ok
    /\ lastOp.log = "verification successed"

\* ---------------------------------------------------------------- notions of the store
\* Connection c takes a turn of the loop of sign_msg in this step.
SignTurn(c) == procs[c].pc = "signing" /\ procs'[c] # procs[c]
\* The key pair that turn hands to update_msg, and where its target is stored.
TurnKeypair(c) == procs[c].keys[procs[c].i]
TurnTarget(c) == FindMsg(msgs, procs[c].msg_id, 1)
\* Every signature message holds verifies over its content under the key of
\* its binding.
Untorn(message) ==
    \A i \in Signed(message.signature) :
        ValidOver(message.signature, i, message.content)

\* ---------------------------------------------------------------- C15
\* C15: no lost update. Whatever the interleaving of the sign requests, a
\* turn of sign_msg for an assigned key leaves that key's binding holding the
\* key's signature over the message's content and changes no other binding;
\* no step of any request removes or replaces a signature that is stored; and
\* every state a reader can see holds only whole messages: each signature
\* present is valid for its binding.
C15_NoLostUpdate ==
    [][/\ Len(msgs') >= Len(msgs)
       /\ \A j \in 1..Len(msgs) :
             /\ Len(msgs'[j].signature) = Len(msgs[j].signature)
             /\ \A i \in Signed(msgs[j].signature) :
                   msgs'[j].signature[i] = msgs[j].signature[i]
       /\ \A j \in 1..Len(msgs') : Untorn(msgs'[j])
       /\ \A c \in Conns :
             (SignTurn(c) /\ TurnTarget(c) # 0) =>
                LET j == TurnTarget(c)
                    b == FindBinding(msgs[j].signature, public_key(TurnKeypair(c)))
                IN  b # 0 =>
                      /\ msgs'[j].signature[b][2] =
                            Some(crypto_sign(msgs[j].content,
                                             secret_key(TurnKeypair(c))))
                      /\ \A i \in 1..Len(msgs[j].signature) :
                            i # b => msgs'[j].signature[i] = msgs[j].signature[i]]_vars

\* Two sign requests for the same stored message are in flight together: one
\* has applied its first key and is about to apply its second, the other is
\* about to apply a key the message lists, and the message holds a signature.
C15_Witness ==
    \E c, d \in Conns :
        /\ c # d
        /\ procs[c].pc = "signing"
        /\ procs[d].pc = "signing"
        /\ procs[c].msg_id = procs[d].msg_id
        /\ procs[c].i = 2
        /\ LET j == FindMsg(msgs, procs[c].msg_id, 1)
           IN  /\ j # 0
               /\ Signed(msgs[j].signature) # {}
               /\ FindBinding(msgs[j].signature,
                              public_key(procs[d].keys[procs[d].i])) # 0
               /\ FindBinding(msgs[j].signature,
                              public_key(procs[c].keys[2])) # 0

\* ---------------------------------------------------------------- C16
\* C16: independence of messages. A turn of sign_msg for one message, whether
\* it signs, finds the signature already there or is rejected, leaves the Vec
\* as long as it was and every message with another identifier exactly as it
\* was: bindings, content and required count.
C16_OtherMessagesUnchanged ==
    [][\A c \in Conns :
          SignTurn(c) =>
             /\ Len(msgs') = Len(msgs)
             /\ \A j \in 1..Len(msgs) :
                   msgs[j].id # procs[c].msg_id => msgs'[j] = msgs[j]]_vars

\* Two messages list the same key; a sign request for one of them has been
\* answered, and that key has signed one message and not the other.
C16_Witness ==
    /\ Len(msgs) = 2
    /\ \E c \in Conns :
          /\ procs[c].pc = "done"
          /\ procs[c].op = "sign_msg"
          /\ procs[c].status = 200
    /\ \E j, k \in 1..2, i \in 1..Len(msgs[1].signature) :
          /\ j # k
          /\ i <= Len(msgs[2].signature)
          /\ msgs[j].signature[i][1] = msgs[k].signature[i][1]
          /\ msgs[j].signature[i][2] # None
          /\ msgs[k].signature[i][2] = None

\* ---------------------------------------------------------------- C17
\* The checksum the bytes carry differs from the checksum of their payload.
WrongChecksum(raw) == SubSeq(raw, 22, 25) # checksum4(SubSeq(raw, 1, 21))

\* C17: address decoding reports the first failing check in the order base58
\* decoding, length (25 bytes), version byte (0), checksum: a string with a
\* character outside the alphabet gives the encoding error whatever its
\* bytes; bytes of a wrong length give the length error whatever their
\* version and checksum; a wrong version gives the version error whatever
\* the checksum.
C17_DecodeCheckOrder ==
    addr.pc = "decoded" =>
        /\ addr.bad => addr.result = AddrErr("Invalid base58 encoding")
        /\ (~addr.bad /\ Len(addr.raw) # 25)
              => addr.result = AddrErr("Invalid address length")
        /\ (~addr.bad /\ Len(addr.raw) = 25 /\ addr.raw[1] # 0)
              => addr.result = AddrErr("Not a P2PKH address")
        /\ (~addr.bad /\ Len(addr.raw) = 25 /\ addr.raw[1] = 0
               /\ WrongChecksum(addr.raw))
              => addr.result = AddrErr("Invalid checksum")

\* A string of 26 bytes with a wrong version byte and a wrong checksum was
\* decoded: the length error was reported.
C17_Witness ==
    /\ addr.pc = "decoded"
    /\ ~addr.bad
    /\ Len(addr.raw) = 26
    /\ addr.raw[1] # 0
    /\ WrongChecksum(addr.raw)
    /\ addr.result = AddrErr("Invalid address length")

\* ---------------------------------------------------------------- C18
\* C18: address round trip. Decoding the address bt_addr_from_pk gives for a
\* public key succeeds and returns hash160 of that key.
C18_AddressRoundTrip ==
    (/\ addr.pc = "decoded"
     /\ addr.text = bt_addr_from_pk(public_key(addr.key)))
    => addr.result = AddrOk(hash160(public_key(addr.key)))

\* The address of key pair 2 was decoded to the hash of its public key.
C18_Witness ==
    /\ addr.pc = "decoded"
    /\ addr.key = 2
    /\ addr.text = bt_addr_from_pk(public_key(2))
    /\ addr.result.ok
    /\ addr.result.hash = hash160(public_key(2))

\* ---------------------------------------------------------------- C20
\* C20: a sign request whose key is known to the system but is not assigned
\* to the target message is answered with a not-found response (404): once a
\* sign call of the request has returned PublicKeyNotFound, the request is
\* over and its status is 404.
C20_UnassignedKeyIsNotFound ==
    \A c \in Conns :
        procs[c].rejected =>
            /\ procs[c].pc = "done"
            /\ procs[c].status = 404

\* ---------------------------------------------------------------- C21
\* The stored message verifies with its own content and required count.
Verifies(message) ==
    Multisig_verify(message.signature, message.content,
                    message.count_required) = Ok
\* The public keys of a list of key pairs.
PublicKeys(keypairs) == {public_key(keypairs[i]) : i \in 1..Len(keypairs)}

\* C21: create, sign with all keys, verify. When a sign request that names
\* every key of its target message completes with status 200, the message
\* verifies from then on (no later step takes that away), and in every state
\* a verify request for a message that verifies is answered 200 "success".
C21_CreateSignVerify ==
    [][/\ \A c \in Conns :
             (/\ SignTurn(c)
              /\ TurnTarget(c) # 0
              /\ procs'[c].pc = "done"
              /\ procs'[c].status = 200
              /\ KeysOf(msgs[TurnTarget(c)].signature) \subseteq PublicKeys(procs[c].keys))
                => Verifies(msgs'[TurnTarget(c)])
       /\ \A j \in 1..Len(msgs) : Verifies(msgs[j]) => Verifies(msgs'[j])
       /\ \A j \in 1..Len(msgs') :
             Verifies(msgs'[j]) =>
                LET r == verify_msg_signature(msgs', msgs'[j].id)
                IN  r.status = 200 /\ r.body = "success"]_vars

\* A message with two keys is fully signed, the sign request was answered 200
\* and a verify request was answered 200 "success".
C21_Witness ==
    /\ \E j \in 1..Len(msgs) :
          /\ Len(msgs[j].signature) = 2
          /\ Signed(msgs[j].signature) = {1, 2}
    /\ \E c, d \in Conns :
          /\ procs[c].pc = "done"
          /\ procs[c].op = "sign_msg"
          /\ procs[c].status = 200
          /\ ~procs[c].rejected
          /\ procs[d].pc = "done"
          /\ procs[d].op = "verify_msg_signature"
          /\ procs[d].status = 200
          /\ procs[d].body = "success"

\* ---------------------------------------------------------------- notions of the requests
\* The positions of the key strings of a request that fail address decoding.
Malformed(keys) == {i \in 1..Len(keys) : ~PkhOf[keys[i]].ok}
\* The key string at position i decodes to the hash of a key pair some user
\* holds.
KnownAt(keys, i) ==
    /\ PkhOf[keys[i]].ok
    /\ \E k \in AllKeypairs(users) : hash160(public_key(k)) = PkhOf[keys[i]].hash
\* The key string at position i stands earlier in the list too.
RepeatedAt(keys, i) == \E h \in 1..(i - 1) : keys[h] = keys[i]
\* Every key string before position n resolves: it is known and not repeated.
ResolveBefore(keys, n) ==
    \A i \in 1..(n - 1) : KnownAt(keys, i) /\ ~RepeatedAt(keys, i)
\* What new_msg returns for a request in the current state.
NewMsgNow(content, keys, required_signature_count) ==
    new_msg(users, msgs, content, keys, required_signature_count,
            MsgUuids[Len(msgs) + 1])
Requireds == {None, Some(1)}

\* ---------------------------------------------------------------- C22
\* C22 as stated: in every state, a create-message request with a key string
\* that fails address decoding is answered 400 and leaves the stored
\* messages as they are.
C22_BadKeyIsBadRequest ==
    Len(msgs) < Len(MsgUuids) =>
        \A content \in ApiContents, keys \in NewMsgKeys, required \in Requireds :
            Malformed(keys) # {} =>
                LET r == NewMsgNow(content, keys, required)
                IN  r.status = 400 /\ r.msgs = msgs

\* C22 amended: such a request leaves the stored messages as they are and is
\* answered with the error of the first key that fails: 400 when every key
\* before the first malformed one resolves, 404 when an earlier key is
\* unknown or repeated.
C22_BadKeyStoresNothing ==
    Len(msgs) < Len(MsgUuids) =>
        \A content \in ApiContents, keys \in NewMsgKeys, required \in Requireds :
            Malformed(keys) # {} =>
                LET r == NewMsgNow(content, keys, required)
                    first == CHOOSE i \in Malformed(keys) :
                                \A h \in Malformed(keys) : i <= h
                IN  /\ r.msgs = msgs
                    /\ r.status = IF ResolveBefore(keys, first) THEN 400 ELSE 404

\* A create-message request was answered 400 while a message was stored, and
\* that message is still the only one.
C22_Witness ==
    /\ Len(msgs) = 1
    /\ \E c \in Conns :
          /\ procs[c].pc = "done"
          /\ procs[c].op = "new_msg"
          /\ procs[c].status = 400

\* ---------------------------------------------------------------- C23
\* C23 as stated: after a sign call that returned Ok, every binding of the
\* signer's public key holds a signature, so a key listed twice fills two
\* slots.
C23_DuplicateKeyFillsBothSlots ==
    (HasMsg /\ lastOp.op = "sign" /\ lastOp.result = Ok) =>
        \A i \in 1..Len(Bindings) :
            Bindings[i][1] = public_key(lastOp.keypair) => Bindings[i][2] # None

\* C23 amended: Multisig::new makes one binding per element of the key list,
\* a repeated key included, but only the first binding of a key is ever
\* signed: every later binding of that key stays empty, and the signatures
\* present never outnumber the distinct keys.
C23_DuplicateKeyFillsFirstSlotOnly ==
    /\ \A l \in KeyLists :
          Len(Multisig_new([i \in 1..Len(l) |-> public_key(l[i])])) = Len(l)
    /\ HasMsg =>
          /\ \A i \in Signed(Bindings) : FindBinding(Bindings, Bindings[i][1]) = i
          /\ Len(PresentSignatures(Bindings)) <= Cardinality(KeysOf(Bindings))

\* The message lists the signer's key twice, the key pair has signed twice
\* (the second call found the signature already there), and the second
\* binding of the key is still empty.
C23_Witness ==
    /\ HasMsg
    /\ lastOp.op = "sign"
    /\ lastOp.result = Ok
    /\ lastOp.log = "signature alreay exists, skip signing"
    /\ \E i, j \in 1..Len(Bindings) :
          /\ i < j
          /\ Bindings[i][1] = public_key(lastOp.keypair)
          /\ Bindings[j][1] = public_key(lastOp.keypair)
          /\ Bindings[i][2] # None
          /\ Bindings[j][2] = None

\* ---------------------------------------------------------------- C24
\* Thread t is inside the lock: past lock() and not yet returned.
Inside(t) == threads[t].pc \in {"locked", "found", "finished"}

\* C24: one lock for the whole store. At most one thread is inside a storage
\* operation at any time, and it is the holder of the guard; the lookup and
\* the modifier call of update_msg both happen inside; so two update_msg
\* calls are never inside together, whatever messages they are for.
C24_SingleLock ==
    /\ Cardinality({t \in Threads : Inside(t)}) <= 1
    /\ \A t \in Threads : Inside(t) => guard = Some(t)
    /\ guard # None => Inside(guard[1])
    /\ \A t, o \in Threads :
          (/\ t # o
           /\ threads[t].op = "update_msg"
           /\ threads[o].op = "update_msg"
           /\ threads[t].msg_id # threads[o].msg_id)
             => ~(Inside(t) /\ Inside(o))

\* One thread has found its message inside update_msg while another, calling
\* update_msg for a different stored message, waits for the lock.
C24_Witness ==
    \E t, o \in Threads :
        /\ threads[t].op = "update_msg"
        /\ threads[t].pc = "found"
        /\ threads[o].op = "update_msg"
        /\ threads[o].pc = "locking"
        /\ threads[o].msg_id # threads[t].msg_id
        /\ threads[o].msg_id \in StoredIds

\* ---------------------------------------------------------------- C25
\* C25: the storage-side message type. After messages::Message::new the
\* message has one binding per public key it was given; sign_with with a key
\* pair whose public key is in that list returns Ok and leaves that key
\* signed; and verify returns Ok once every listed key has signed.
C25_StorageMessageHasBindings ==
    HasMsg =>
        LET pubkeys == requested[1].pubkeys
            listed == {pubkeys[i] : i \in 1..Len(pubkeys)}
        IN  /\ Len(msg[1].signatures) = Len(pubkeys)
            /\ (lastOp.op = "sign_with" /\ public_key(lastOp.keypair) \in listed) =>
                  /\ lastOp.result = Ok
                  /\ \E i \in Signed(msg[1].signatures) :
                        msg[1].signatures[i][1] = public_key(lastOp.keypair)

\* ---------------------------------------------------------------- C26
\* C26: in every state of the store and for every message identifier and
\* key pair of a user, update_msg with the sign modifier returns Ok only if
\* the message is stored and the modifier returned Ok; an error of the
\* modifier is what update_msg returns; and for a message that is not stored
\* it returns NoMsg and changes nothing.
C26_UpdateMsgReturnsModifierResult ==
    \A msg_id \in MsgIds, keypair \in AllKeypairs(users) :
        LET u == update_msg(msgs, msg_id, keypair)
            at == FindMsg(msgs, msg_id, 1)
        IN  /\ u.result = StorageOk => (at # 0 /\ u.modifier = Ok)
            /\ (at # 0 /\ u.modifier # Ok) => u.result = StorageMultisig(u.modifier)
            /\ at = 0 => (u.result = NoMsg /\ u.msgs = msgs)

\* ---------------------------------------------------------------- C27
\* What verify returns for the message with its own content and stored count.
VerifyStored == Multisig_verify(Bindings, Content, CountRequired)

\* C27: for every message built by Message::new the stored count is at least
\* the number of bindings; verify with the stored count returns Ok only when
\* every binding holds a valid signature; and when the requested count is
\* larger than the number of keys it returns NotEnoughSignatures in every
\* state. A verify call made with the stored content and count returned just
\* that.
C27_StoredCountCoversAllBindings ==
    HasMsg =>
        /\ CountRequired >= Len(Bindings)
        /\ VerifyStored = Ok =>
              \A i \in 1..Len(Bindings) :
                  Bindings[i][2] # None /\ ValidOver(Bindings, i, Content)
        /\ (requested # None /\ requested[1] > Len(Bindings)) =>
              VerifyStored = NotEnoughSignatures(Len(PresentSignatures(Bindings)),
                                                 CountRequired)
        /\ (lastOp.op = "verify" /\ lastOp.content = Content
               /\ lastOp.count = CountRequired) =>
              lastOp.result = VerifyStored

\* The requested count was larger than the number of keys, every binding
\* holds a valid signature, and verify with the stored count has returned
\* NotEnoughSignatures.
C27_Witness ==
    /\ HasMsg
    /\ requested # None
    /\ requested[1] > Len(Bindings)
    /\ Len(Bindings) >= 2
    /\ \A i \in 1..Len(Bindings) :
          Bindings[i][2] # None /\ ValidOver(Bindings, i, Content)
    /\ lastOp.op = "verify"
    /\ lastOp.content = Content
    /\ lastOp.count = CountRequired
    /\ lastOp.result.tag = "NotEnoughSignatures"

\* ---------------------------------------------------------------- C28
\* The positions of a request's key list whose address stands earlier too.
Repeated(keys) == {i \in 1..Len(keys) : RepeatedAt(keys, i)}

Unresolvable(keys) ==
    \E i \in 1..Len(keys) : ~KnownAt(keys, i) \/ RepeatedAt(keys, i)

\* C29: sign_msg resolves every address before it signs. In every state, a
\* sign request with an address that is malformed, unknown or repeated ends
\* with 400 or 404 before the signing loop, and the request run to its
\* response leaves every stored message as it is; and a request that is in
\* the loop holds pairwise distinct key pairs of the users, none applied
\* before all were resolved.
C29_ResolveAllBeforeSigning ==
    /\ \A msg_id \in MsgIds, keys \in SignKeys :
          Unresolvable(keys) =>
             LET h == sign_msg_extract(users, msg_id, keys)
                 r == sign_msg(users, msgs, msg_id, keys)
             IN  /\ h.pc = "done"
                 /\ r.status \in {400, 404}
                 /\ r.msgs = msgs
    /\ \A c \in Conns :
          procs[c].pc = "signing" =>
             /\ procs[c].i \in 1..Len(procs[c].keys)
             /\ \A i \in 1..Len(procs[c].keys) :
                   /\ procs[c].keys[i] \in AllKeypairs(users)
                   /\ \A h \in 1..Len(procs[c].keys) :
                         h # i => procs[c].keys[h] # procs[c].keys[i]

\* A sign request was refused with 404 while its target is stored with a key
\* still unsigned, and in this state a request naming that key first and an
\* unknown key second is refused.
C29_Witness ==
    /\ \E c \in Conns :
          /\ procs[c].pc = "done"
          /\ procs[c].op = "sign_msg"
          /\ procs[c].status = 404
    /\ \E j \in 1..Len(msgs) :
          /\ msgs[j].signature[1][2] = None
          /\ \E keys \in SignKeys :
                /\ Len(keys) = 2
                /\ KnownAt(keys, 1)
                /\ PkhOf[keys[1]].hash = hash160(msgs[j].signature[1][1])
                /\ PkhOf[keys[2]].ok
                /\ ~KnownAt(keys, 2)
                /\ sign_msg(users, msgs, msgs[j].id, keys).status = 404

\* ---------------------------------------------------------------- C30
\* C30: a sign request is applied key by key, in request order, one
\* update_msg call per turn, and nothing is taken back. A turn that does not
\* end the request moves on to the next key of the same list for the same
\* message; the request ends only after its last key or when the message is
\* not stored; a turn changes at most the one binding of its key pair; and a
\* signature that is stored stays as it is through every turn, also a turn
\* whose sign call fails.
C30_KeyByKeyNoRollback ==
    [][\A c \in Conns :
          SignTurn(c) =>
             /\ procs'[c].pc \in {"signing", "done"}
             /\ procs'[c].pc = "signing" =>
                   /\ procs'[c].i = procs[c].i + 1
                   /\ procs'[c].keys = procs[c].keys
                   /\ procs'[c].msg_id = procs[c].msg_id
             /\ procs'[c].pc = "done" =>
                   (procs[c].i = Len(procs[c].keys) \/ TurnTarget(c) = 0)
             /\ \A d \in Conns : d # c => procs'[d] = procs[d]
             /\ Len(msgs') = Len(msgs)
             /\ \A j \in 1..Len(msgs) :
                   /\ \A i \in Signed(msgs[j].signature) :
                         msgs'[j].signature[i] = msgs[j].signature[i]
                   /\ \A i \in 1..Len(msgs[j].signature) :
                         msgs'[j].signature[i] # msgs[j].signature[i] =>
                            /\ j = TurnTarget(c)
                            /\ msgs[j].signature[i][1] = public_key(TurnKeypair(c))]_vars

\* A request naming three keys has signed with its first, failed with its
\* second (not assigned to the message) and is about to apply its third: the
\* first key's signature is still stored. Another request for the same
\* message has been answered in between or before.
C30_Witness ==
    \E c, d \in Conns :
        /\ c # d
        /\ procs[c].pc = "signing"
        /\ procs[c].i = 3
        /\ procs[c].rejected
        /\ procs[d].pc = "done"
        /\ procs[d].op = "sign_msg"
        /\ LET j == FindMsg(msgs, procs[c].msg_id, 1)
               b == FindBinding(msgs[j].signature, public_key(procs[c].keys[1]))
           IN  /\ j # 0
               /\ b # 0
               /\ msgs[j].signature[b][2] # None
               /\ FindBinding(msgs[j].signature, public_key(procs[c].keys[2])) = 0


\* ---------------------------------------------------------------- C31
\* The answer of verify_msg_signature for the message id is 200 "success".
VerifySucceeds(store, msg_id) ==
    LET r == verify_msg_signature(store, msg_id)
    IN  r.status = 200 /\ r.body = "success"

\* C31: verified is stable. Every signature in the store was made by the
\* sign_msg handler over the stored content, and across every step of any
\* request (a new message, the resolving of a sign request, one turn of a
\* sign request on any message, a verify request) a message id for which
\* verify_msg_signature answers "success" stays stored with its content and
\* its required count and is answered "success" afterwards too.
C31_VerifiedIsStable ==
    [][\A id \in MsgIds :
          VerifySucceeds(msgs, id) =>
             /\ FindMsg(msgs', id, 1) = FindMsg(msgs, id, 1)
             /\ msgs'[FindMsg(msgs, id, 1)].content =
                   msgs[FindMsg(msgs, id, 1)].content
             /\ msgs'[FindMsg(msgs, id, 1)].count_required =
                   msgs[FindMsg(msgs, id, 1)].count_required
             /\ VerifySucceeds(msgs', id)]_vars

\* A verify request was answered 200 "success" and a sign request that names
\* three keys, one of them no key of its message, is past its second turn on
\* a message that is answered "success".
C31_Witness ==
    \E c, d \in Conns :
        /\ procs[d].pc = "done"
        /\ procs[d].op = "verify_msg_signature"
        /\ procs[d].status = 200
        /\ procs[d].body = "success"
        /\ procs[c].pc = "signing"
        /\ procs[c].i = 3
        /\ procs[c].rejected
        /\ VerifySucceeds(msgs, procs[c].msg_id)


\* ---------------------------------------------------------------- C32
\* The connection's new_keypair request was answered 200.
KeypairAdded(c) ==
    /\ procs[c].pc = "done"
    /\ procs[c].op = "new_keypair"
    /\ procs[c].status = 200
\* The key pairs of the stored user with the identifier.
StoredKeypairs(id) ==
    UNION {{users[u].keys[k] : k \in DOMAIN users[u].keys} :
              u \in {v \in DOMAIN users : users[v].id = id}}

\* C32: no key pair is lost. When two new_keypair requests for the same user
\* have both been answered 200, the stored user holds the key pair each of
\* them generated.
C32_BothKeypairsStored ==
    \A c, d \in Conns :
        (/\ c # d
         /\ KeypairAdded(c)
         /\ KeypairAdded(d)
         /\ procs[c].user[1].id = procs[d].user[1].id)
            => {procs[c].keypair, procs[d].keypair}
                  \subseteq StoredKeypairs(procs[c].user[1].id)

====
